---- MODULE Spec2Model ----
(***************************************************************************)
(* Model of the Witcher SFX generator: the batch build (main) of both      *)
(* implementations, make_witcher_sfx.py ("v1", pydub back end) and         *)
(* make_witcher_sfx_v2.py ("v2", wave + ffmpeg CLI back end), and the      *)
(* signal chain (generators, filters, reverb, normalisation, fades, the    *)
(* seven recipes) in fixed-point arithmetic.                               *)
(***************************************************************************)
EXTENDS Integers, Sequences, FiniteSets, TLC

VARIABLES
    impl,       \* which script runs: "v1" or "v2"
    pc,         \* position of main: "loop", "zip", "summary", "done", "raised"
    idx,        \* index (1-based) of the next catalog entry of the batch loop
    ffmpeg,     \* whether the external encoder is on PATH
    fs,         \* files that exist, as paths [dir, name, ext]
    paths,      \* generated_files (v1) / mp3_or_wav_paths (v2)
    archive,    \* entries of sfx_witcher.zip, in order
    warned,     \* a warning was surfaced to the operator
    encoded,    \* recipe names whose encode succeeded in this run
    failed,     \* recipe names whose encode was unavailable or failed in this run
    fresh,      \* target files written for their recipe in this run
    error,      \* the exception that ended main, "none" otherwise
    call,       \* a call of a function of the signal chain: the function and its arguments
    dpc,        \* position of that call: "ready", "returned", "raised" ("off": none)
    res         \* what the call returned

bvars == <<impl, pc, idx, ffmpeg, fs, paths, archive, warned, encoded, failed, fresh, error>>

dvars == <<call, dpc, res>>

vars == <<impl, pc, idx, ffmpeg, fs, paths, archive, warned, encoded, failed, fresh, error,
          call, dpc, res>>

----------------------------------------------------------------------------
(* Config *)

TARGET_DIR == "public/assets/sfx"

TMP_WAV_DIR == ".tmp_wav_sfx"

\* GENERATORS, in the dict's insertion order (the order main iterates in)
GENERATORS == <<"gale", "ember", "ward", "snare", "soothe", "void", "aegis">>

Names == {GENERATORS[k] : k \in 1..Len(GENERATORS)}

\* the most stale <recipe>.mp3 files the output directory holds before a run
MaxStale == 1

Path(dir, name, ext) == [dir |-> dir, name |-> name, ext |-> ext]

Mp3Of(name) == Path(TARGET_DIR, name, "mp3")

WavOf(name) == Path(TARGET_DIR, name, "wav")

TmpWavOf(name) == Path(TMP_WAV_DIR, name, "wav")

----------------------------------------------------------------------------
(* The external encoder.  Its behaviour is the environment's: each         *)
(* invocation ends in one of these outcomes.                               *)
(*   "ok"      exit status 0, the .mp3 is written (more than 1000 bytes)   *)
(*   "small"   exit status 0, the .mp3 is missing or at most 1000 bytes    *)
(*   "exit"    the encoder ran and failed (non-zero status)                *)
(*   "oserror" the encoder could not be started (OSError from the exec)    *)
(*   "absent"  no encoder on PATH                                          *)

EncoderOutcomes(present) == IF present THEN {"ok", "small", "exit", "oserror"} ELSE {"absent"}

\* has_ffmpeg(): shutil.which("ffmpeg") is not None
has_ffmpeg(present) == present

\* convert_wav_to_mp3: what it does for an encoder outcome o.
\* "return" is its boolean result, "raises" an exception it lets through.
convert_wav_to_mp3(present, o) ==
    IF ~has_ffmpeg(present) THEN [return |-> FALSE, raises |-> "none"]
    ELSE IF o = "ok" THEN [return |-> TRUE, raises |-> "none"]
    ELSE IF o = "small" THEN [return |-> FALSE, raises |-> "none"]
    ELSE IF o = "exit" THEN [return |-> FALSE, raises |-> "none"]   \* except CalledProcessError
    ELSE [return |-> FALSE, raises |-> "OSError"]                   \* not caught

\* _export_audio(seg, path_mp3, fallback_wav=True): seg.export raises for every
\* outcome but a normal return of the encoder; the handler catches Exception,
\* warns and exports the .wav.  "left" says the failed export left a file at
\* path_mp3 (the export opens its output before it runs the encoder).
export_audio(fsv, name, o, left) ==
    IF o \in {"ok", "small"}
    THEN [fs |-> fsv \cup {Mp3Of(name)}, warn |-> FALSE, wav |-> FALSE]
    ELSE [fs |-> fsv \cup (IF left THEN {Mp3Of(name)} ELSE {}) \cup {WavOf(name)},
          warn |-> TRUE, wav |-> TRUE]

\* v1 main, lines 326-330: which path joins generated_files
PickV1(fsv, name) == IF Mp3Of(name) \in fsv THEN Mp3Of(name) ELSE WavOf(name)

\* v2 main, lines 300-306: which path joins mp3_or_wav_paths
PickV2(ok_mp3, name) == IF ok_mp3 THEN Mp3Of(name) ELSE WavOf(name)

----------------------------------------------------------------------------
(* Signals.  A sample is an integer on a fixed-point grid, Q standing for  *)
(* 1.0; a mono signal is a sequence of samples, a stereo signal a sequence *)
(* of rows <<left, right>> (numpy shape (n, 2)).  Times are in tenths of a *)
(* millisecond, so that 14.5 ms is a whole number.                         *)

SAMPLE_RATE == 44100

\* samples per second of the signals the model computes sample by sample
ModelRate == 100

\* the fixed-point grid: Q is 1.0
Q == 1000

\* the seeds the random sources are started from
MaxSeed == 2

Abs(a) == IF a < 0 THEN 0 - a ELSE a

Min(a, b) == IF a < b THEN a ELSE b

Max(a, b) == IF a > b THEN a ELSE b

\* a / b rounded towards zero (b > 0)
TruncDiv(a, b) == IF a < 0 THEN 0 - ((0 - a) \div b) ELSE a \div b

\* the product of two fixed-point numbers
MulQ(a, b) == TruncDiv(a * b, Q)

\* the fixed-point value of num / den
Frac(num, den) == (num * Q) \div den

\* int(sr * seconds), the time t given in tenths of a millisecond; exact
\* arithmetic, so one sample above the float result where sr * seconds falls
\* just below an integer (int(44100 * 0.35) is 15434 in floats, 15435 here)
IntSamples(sr, t) == (sr * t) \div 10000

RECURSIVE ForRange(_, _, _, _)
\* for i in range(lo, hi + 1): y = Body(y, i), by halving the range
ForRange(Body(_, _), y, lo, hi) ==
    IF Len(y) < 0 \/ lo > hi THEN y
    ELSE IF lo = hi THEN Body(y, lo)
    ELSE LET mid == (lo + hi) \div 2
         IN ForRange(Body, ForRange(Body, y, lo, mid), mid + 1, hi)

SetMax(S) == CHOOSE m \in S : \A k \in S : k <= m

\* the sequence s with every element computed, once
SeqOf(s) == s \o <<>>

Zeros(n) == SeqOf([i \in 1..n |-> 0])

Zeros2(n) == SeqOf([i \in 1..n |-> <<0, 0>>])

\* Python's slice bound k on a sequence of length n (negative: from the end)
PyIdx(k, n) == IF k < 0 THEN Max(n + k, 0) ELSE Min(k, n)

\* len(x[lo:hi]) for len(x) = n
SliceLen(n, lo, hi) == Max(0, PyIdx(hi, n) - PyIdx(lo, n))

\* x[lo:hi]
PySlice(x, lo, hi) ==
    LET n == Len(x)
        a == PyIdx(lo, n)
    IN SeqOf([i \in 1..SliceLen(n, lo, hi) |-> x[a + i]])

\* numpy's in-place broadcast of `src` rows onto a slice of `dst` rows
BroadcastOk(dst, src) == src = dst \/ src = 1

\* np.linspace(a, b, k)[j], j from 0
Linspace(a, b, k, j) == IF k <= 1 THEN a ELSE a + TruncDiv((b - a) * j, k - 1)

\* sin of a whole number of degrees (Bhaskara's rational approximation)
SinDeg(deg) ==
    LET d == deg % 360
        u == d % 180
        v == (4 * u * (180 - u) * Q) \div (40500 - u * (180 - u))
    IN IF d < 180 THEN v ELSE 0 - v

\* sine(f, t)[i] = sin(2 pi f t[i]), t[i] = i / sr, f in hundredths of a hertz
sine(f100, i, sr) ==
    LET p == (f100 * i) % (100 * sr)
    IN SinDeg((p * 360) \div (100 * sr))

\* np.hanning(M)[j] = 0.5 - 0.5 cos(2 pi j / (M - 1)), j from 0
hanning(M, j) ==
    IF M = 1 THEN Q
    ELSE (Q - SinDeg(((j * 360) \div (M - 1)) + 90)) \div 2

\* the random sources: a linear congruential generator on 0..65536
LcgNext(s) == (75 * s + 74) % 65537

\* the states of the generator over n draws from seed
LcgStates(seed, n) ==
    ForRange(LAMBDA y, i : [y EXCEPT ![i] = LcgNext(IF i = 1 THEN (7919 * seed + 12345) % 65537 ELSE y[i - 1])],
             Zeros(n), 1, n)

\* noise(n): n uniform samples in [-1, 1)
noise(seed, n) ==
    LET st == LcgStates(seed, n)
    IN SeqOf([i \in 1..n |-> ((st[i] * 2 * Q) \div 65537) - Q])

\* random.random(): k numbers in [0, 1)
random(seed, k) ==
    LET st == LcgStates(seed, k)
    IN SeqOf([i \in 1..k |-> (st[i] * Q) \div 65537])

----------------------------------------------------------------------------
(* Post-processing and filters *)

MaxAbs(x) == SetMax({Abs(x[i]) : i \in 1..Len(x)} \cup {0})

\* a variant of MaxAbs2 that looks at the left channel only; C6 must notice it
MaxAbsLeft(st) == SetMax({Abs(st[i][1]) : i \in 1..Len(st)} \cup {0})

MaxAbs2(st) == SetMax({Abs(st[i][1]) : i \in 1..Len(st)} \cup {Abs(st[i][2]) : i \in 1..Len(st)} \cup {0})

\* np.max of an empty array raises ValueError
normalize_raises(n) == n = 0

\* normalize_peak on a mono signal: (x / (max|x| + 1e-12)) * peak
normalize_peak(x, peak) ==
    LET m == MaxAbs(x)
    IN IF m = 0 THEN x ELSE SeqOf([i \in 1..Len(x) |-> TruncDiv(x[i] * peak, m)])

\* normalize_peak on a stereo signal: one scale factor, from the maximum over
\* both channels
normalize_peak2(st, peak) ==
    LET m == MaxAbs2(st)
    IN IF m = 0 THEN st
       ELSE SeqOf([i \in 1..Len(st) |-> <<TruncDiv(st[i][1] * peak, m), TruncDiv(st[i][2] * peak, m)>>])

\* fade: x[:fi_n] *= linspace(0, 1, fi_n) and x[-fo_n:] *= linspace(1, 0, fo_n)
\* raise ValueError when the slice and the ramp differ in length
fade_raises(n, fi_n, fo_n) ==
    \/ fi_n > 0 /\ ~BroadcastOk(SliceLen(n, 0, fi_n), fi_n)
    \/ fo_n > 0 /\ ~BroadcastOk(SliceLen(n, 0 - fo_n, n), fo_n)

\* the gain the fade puts on sample i (from 1) of n
FadeGain(n, fi_n, fo_n, i) ==
    LET gin == IF fi_n > 0 /\ i <= fi_n THEN Linspace(0, Q, fi_n, i - 1) ELSE Q
        gout == IF fo_n > 0 /\ i > n - fo_n THEN Linspace(Q, 0, fo_n, i - 1 - (n - fo_n)) ELSE Q
    IN <<gin, gout>>

\* fade on a mono signal (v1 calls _fade before the stereo split)
fade1(x, sr, fi, fo) ==
    LET n == Len(x)
        fi_n == IntSamples(sr, fi)
        fo_n == IntSamples(sr, fo)
    IN SeqOf([i \in 1..n |-> LET g == FadeGain(n, fi_n, fo_n, i) IN MulQ(MulQ(x[i], g[1]), g[2])])

\* a variant of fade that cuts the fade-out off instead of ramping it; C7 must
\* notice it
fade_trim(st, sr, fi, fo) ==
    LET n == Len(st)
        fi_n == IntSamples(sr, fi)
        fo_n == IntSamples(sr, fo)
    IN SeqOf([i \in 1..Max(n - fo_n, 0) |-> LET g == FadeGain(n, fi_n, fo_n, i)
                                            IN <<MulQ(st[i][1], g[1]), MulQ(st[i][2], g[1])>>])

\* fade on a stereo signal: the same ramps on both channels
fade(st, sr, fi, fo) ==
    LET n == Len(st)
        fi_n == IntSamples(sr, fi)
        fo_n == IntSamples(sr, fo)
    IN SeqOf([i \in 1..n |-> LET g == FadeGain(n, fi_n, fo_n, i)
                             IN <<MulQ(MulQ(st[i][1], g[1]), g[2]), MulQ(MulQ(st[i][2], g[1]), g[2])>>])

\* alpha = dt / (rc + dt), rc = 1 / (2 pi cutoff), dt = 1 / sr, pi as 22/7
LowAlpha(cutoff_hz, sr) == (44 * cutoff_hz * Q) \div (44 * cutoff_hz + 7 * sr)

\* alpha = rc / (rc + dt)
HighAlpha(cutoff_hz, sr) == (7 * sr * Q) \div (44 * cutoff_hz + 7 * sr)

\* y[0] = x[0] raises IndexError on an empty signal
filter_raises(n) == n = 0

\* y[0] = x[0]; for i in range(1, len(x)): y[i] = y[i-1] + alpha * (x[i] - y[i-1])
lowpass(x, cutoff_hz, sr) ==
    LET alpha == LowAlpha(cutoff_hz, sr)
    IN IF Len(x) = 0 THEN x
       ELSE ForRange(LAMBDA y, i : [y EXCEPT ![i] = y[i - 1] + MulQ(alpha, x[i] - y[i - 1])],
                     [Zeros(Len(x)) EXCEPT ![1] = x[1]], 2, Len(x))

\* y[0] = x[0]; for i in range(1, len(x)): y[i] = alpha * (y[i-1] + x[i] - x[i-1])
highpass(x, cutoff_hz, sr) ==
    LET alpha == HighAlpha(cutoff_hz, sr)
    IN IF Len(x) = 0 THEN x
       ELSE ForRange(LAMBDA y, i : [y EXCEPT ![i] = MulQ(alpha, y[i - 1] + x[i] - x[i - 1])],
                     [Zeros(Len(x)) EXCEPT ![1] = x[1]], 2, Len(x))

\* comb_filter, the delay in tenths of a millisecond:
\* y = copy(x); for i in range(d, len(x)): y[i] += feedback * y[i - d]
comb_filter(x, delay, feedback, sr) ==
    LET d == IntSamples(sr, delay)
        y == ForRange(LAMBDA y, i : [y EXCEPT ![i] = y[i] + MulQ(feedback, y[i - d])],
                      x, d + 1, Len(x))
    IN normalize_peak(y, Frac(9, 10))

----------------------------------------------------------------------------
(* Reverb *)

\* delay = int(sr * (base_ms * t) / 1000.0), base in tenths of a millisecond
TapDelay(sr, base, t) == IntSamples(sr, base * t)

RECURSIVE PowQ(_, _)
\* gain = decay ** t
PowQ(decay, t) == IF t = 0 THEN Q ELSE MulQ(PowQ(decay, t - 1), decay)

\* len(tail): tail = np.vstack([pad, st[:-delay]]) if delay < len(st) else pad
TailLen(n, delay) == IF delay < n THEN delay + SliceLen(n, 0, 0 - delay) ELSE delay

\* tail, as rows
TapTail(st, delay) ==
    IF delay < Len(st) THEN Zeros2(delay) \o PySlice(st, 0, 0 - delay) ELSE Zeros2(delay)

\* y[:, c] += gain * tail[:, c] raises ValueError unless tail broadcasts onto y
reverb_raises(n, sr, taps, base) ==
    \/ \E t \in 1..taps : ~BroadcastOk(n, TailLen(n, TapDelay(sr, base, t)))
    \/ normalize_raises(n)

\* a variant of TapAdd that puts the jitter on both channels; C12 must notice it
TapAddBoth(yrow, trow, gain, wide) ==
    <<yrow[1] + MulQ(MulQ(gain, trow[1]), wide), yrow[2] + MulQ(MulQ(gain, trow[2]), wide)>>

\* one frame of a tap: y[:, 0] += gain * tail[:, 0] and
\* y[:, 1] += gain * tail[:, 1] * (0.9 + 0.2 * random.random())
TapAdd(yrow, trow, gain, wide) ==
    <<yrow[1] + MulQ(gain, trow[1]), yrow[2] + MulQ(MulQ(gain, trow[2]), wide)>>

RECURSIVE TapLoop(_, _, _, _, _, _, _, _)
\* the loop over the taps; jit[t] is the t-th random.random() of the call
TapLoop(st, y, t, sr, decay, taps, base, jit) ==
    IF t > taps THEN y
    ELSE LET gain == PowQ(decay, t)
             tail == TapTail(st, TapDelay(sr, base, t))
             wide == Frac(9, 10) + MulQ(Frac(2, 10), jit[t])
             row(i) == IF Len(tail) = 1 THEN tail[1] ELSE tail[i]
             y1 == SeqOf([i \in 1..Len(y) |-> TapAdd(y[i], row(i), gain, wide)])
         IN TapLoop(st, y1, t + 1, sr, decay, taps, base, jit)

\* the sum of the dry signal and its taps, before the final normalisation
ReverbSum(st, sr, decay, taps, base, jit) == TapLoop(st, st, 1, sr, decay, taps, base, jit)

\* a variant of reverb_simple that returns the sum of the taps as it is; C5
\* must notice it
reverb_unnormalised(st, sr, decay, taps, base, jit) == ReverbSum(st, sr, decay, taps, base, jit)

reverb_simple(st, sr, decay, taps, base, jit) ==
    normalize_peak2(ReverbSum(st, sr, decay, taps, base, jit), Frac(95, 100))

----------------------------------------------------------------------------
(* Synth building blocks *)

\* the signal of n samples whose sample j (from 0) is F(j)
Sig(n, F(_)) == SeqOf([i \in 1..n |-> F(i - 1)])

Scale(x, k) == SeqOf([i \in 1..Len(x) |-> MulQ(x[i], k)])

Add(x, y) == SeqOf([i \in 1..Len(x) |-> x[i] + y[i]])

\* np.stack([L, R], axis=1)
Stack(L, R) == SeqOf([i \in 1..Len(L) |-> <<L[i], R[i]>>])

\* v1's _envelope_ad raises ValueError when a slice and what is assigned to it
\* differ in length; a, d in samples
envelope_raises(n, a, d) ==
    \/ a > 0 /\ ~BroadcastOk(SliceLen(n, 0, a), a)
    \/ d > 0 /\ LET end == Min(a + d, n)
                IN ~BroadcastOk(SliceLen(n, a, end), SliceLen(d, 0, end - a))

\* v1's _envelope_ad: env = ones(n); env[:a] = linspace(0, 1, a);
\* env[a:end] = linspace(1, 0.2, d)[:end - a], end = min(a + d, n)
envelope_ad(n, attack, decay, sr) ==
    LET a == IntSamples(sr, attack)
        d == IntSamples(sr, decay)
        end == Min(a + d, n)
    IN Sig(n, LAMBDA j : IF a > 0 /\ j < a THEN Linspace(0, Q, a, j)
                         ELSE IF d > 0 /\ j >= a /\ j < end THEN Linspace(Q, Frac(2, 10), d, j - a)
                         ELSE Q)

\* v2's envelope (bell_tone, lines 126-130) raises ValueError when a slice and
\* the ramp differ in length, or the ramp's length is negative
envelope2_raises(n, a, d) ==
    \/ ~BroadcastOk(SliceLen(n, 0, a), a) /\ a # 0
    \/ Min(d, n - a) < 0
    \/ ~BroadcastOk(SliceLen(n, a, a + d), Min(d, n - a))

\* v2's envelope: env = ones(n); env[:a] = linspace(0, 1, a);
\* env[a:a+d] = linspace(1, 0.25, min(d, n - a))
envelope2(n, attack, decay, sr) ==
    LET a == IntSamples(sr, attack)
        d == IntSamples(sr, decay)
        k == Min(d, n - a)
    IN Sig(n, LAMBDA j : IF j < a THEN Linspace(0, Q, a, j)
                         ELSE IF j < a + d THEN Linspace(Q, Frac(25, 100), k, j - a)
                         ELSE Q)

\* the envelope of the bell tone: attack 5 ms, decay 0.9 of the duration
BellEnv(v, n, duration, sr) ==
    IF v = "v1" THEN envelope_ad(n, 50, (duration * 9) \div 10, sr)
    ELSE envelope2(n, 50, (duration * 9) \div 10, sr)

BellEnvRaises(v, n, duration, sr) ==
    IF v = "v1" THEN envelope_raises(n, IntSamples(sr, 50), IntSamples(sr, (duration * 9) \div 10))
    ELSE envelope2_raises(n, IntSamples(sr, 50), IntSamples(sr, (duration * 9) \div 10))

\* bell_tone: partials 1.0, 2.01, 2.74, 3.76 of base_f (in hertz) with
\* amplitudes 1.0, 0.5, 0.3, 0.2, times the envelope
bell_tone(v, duration, base_f, sr) ==
    LET n == IntSamples(sr, duration)
        env == BellEnv(v, n, duration, sr)
    IN Sig(n, LAMBDA j :
             MulQ(sine(base_f * 100, j, sr)
                  + MulQ(Frac(5, 10), sine(base_f * 201, j, sr))
                  + MulQ(Frac(3, 10), sine(base_f * 274, j, sr))
                  + MulQ(Frac(2, 10), sine(base_f * 376, j, sr)),
                  env[j + 1]))

----------------------------------------------------------------------------
(* Sound designs.  Each recipe is the pair of its mix (the mono signal it  *)
(* builds and peak-normalises, the same in both scripts) and its finish    *)
(* (the stereo split, the reverb and the fade, in the script's order).     *)
(* d is the duration, ns the seed of numpy's random source, rs the seed of *)
(* the random module's, jit the reverb's random.random() draws.            *)

\* the peak each recipe passes to its own peak normalisation
PEAK ==
    [gale |-> Frac(80, 100), ember |-> Frac(95, 100), ward |-> Frac(90, 100),
     snare |-> Frac(95, 100), soothe |-> Frac(90, 100), void |-> Frac(90, 100),
     aegis |-> Frac(92, 100)]

\* the fade of each recipe: fade-in and fade-out, in tenths of a millisecond
FADE ==
    [gale |-> <<300, 1200>>, ember |-> <<50, 1000>>, ward |-> <<20, 2000>>,
     snare |-> <<0, 2500>>, soothe |-> <<100, 3500>>, void |-> <<300, 2000>>,
     aegis |-> <<50, 3500>>]

\* the reverb of each recipe: decay, taps, base delay (tenths of a millisecond);
\* gale has none
REVERB ==
    [gale |-> <<0, 0, 0>>, ember |-> <<Frac(55, 100), 3, 450>>, ward |-> <<Frac(60, 100), 4, 300>>,
     snare |-> <<Frac(45, 100), 3, 250>>, soothe |-> <<Frac(65, 100), 4, 550>>,
     void |-> <<Frac(55, 100), 4, 700>>, aegis |-> <<Frac(60, 100), 5, 350>>]

\* DURATION_S, in tenths of a millisecond
DURATION_S ==
    [gale |-> 9000, ember |-> 9000, ward |-> 9000, snare |-> 6000,
     soothe |-> 11000, void |-> 10000, aegis |-> 11000]

MixGale(d, sr, ns) ==
    LET n == IntSamples(sr, d)
        base == lowpass(noise(ns, n), 1200, sr)
        x == Sig(n, LAMBDA j :
                LET whoosh == MulQ(Frac(6, 10), sine(70, j, sr)) + MulQ(Frac(4, 10), sine(130, j, sr))
                IN MulQ(base[j + 1], Frac(4, 10) + MulQ(Frac(6, 10), MulQ(whoosh, Frac(5, 10)) + Frac(5, 10))))
    IN normalize_peak(highpass(x, 80, sr), PEAK.gale)

RECURSIVE CrackleSum(_, _, _, _, _)
\* what the crackles k..18 add at sample j: crackles[pos : pos + L] += spike
CrackleSum(k, j, n, L, R) ==
    IF k > 18 THEN 0
    ELSE LET pos == (R[2 * k - 1] * (n - L)) \div Q      \* random.randint(0, n - L - 1)
             amp == Frac(9, 10) + MulQ(Frac(3, 10), R[2 * k])
         IN (IF pos <= j /\ j < pos + L THEN MulQ(hanning(L, j - pos), amp) ELSE 0)
            + CrackleSum(k + 1, j, n, L, R)

MixEmber(d, sr, ns, rs) ==
    LET n == IntSamples(sr, d)
        fizz == highpass(Scale(noise(ns, n), Frac(4, 10)), 3000, sr)
        L == IntSamples(sr, 150)
        R == random(rs, 36)
        x == Sig(n, LAMBDA j :
                MulQ(Frac(3, 10), sine(6500, j, sr)) + MulQ(Frac(2, 10), sine(13000, j, sr))
                + MulQ(Frac(5, 10), CrackleSum(1, j, n, L, R))
                + MulQ(Frac(25, 100), fizz[j + 1]))
    IN normalize_peak(x, PEAK.ember)

MixWard(v, d, sr) ==
    LET hit == bell_tone(v, d, 520, sr)
        metal == comb_filter(hit, 145, Frac(4, 10), sr)
    IN normalize_peak(Add(Scale(hit, Frac(6, 10)), Scale(metal, Frac(7, 10))), PEAK.ward)

MixSnare(d, sr) ==
    LET n == IntSamples(sr, d)
        L == IntSamples(sr, 400)
        clank == highpass(Sig(n, LAMBDA j : IF j < L THEN hanning(L, j) ELSE 0), 1200, sr)
        tail == comb_filter(Scale(clank, Frac(6, 10)), 110, Frac(5, 10), sr)
    IN normalize_peak(Add(Scale(clank, Frac(8, 10)), Scale(tail, Frac(6, 10))), PEAK.snare)

MixSoothe(v, d, sr, ns) ==
    LET bell == bell_tone(v, d, 740, sr)
        shimmer == highpass(Scale(noise(ns, Len(bell)), Frac(2, 10)), 6000, sr)
    IN normalize_peak(Add(Scale(bell, Frac(85, 100)), Scale(shimmer, Frac(2, 10))), PEAK.soothe)

\* swell = clip(linspace(0, 1, n) ** 2.2, 0, 1); the exponent is taken as 2
MixVoid(d, sr, ns) ==
    LET n == IntSamples(sr, d)
        texture == lowpass(Scale(noise(ns, n), Frac(3, 10)), 1200, sr)
        x == Sig(n, LAMBDA j :
                LET sub == MulQ(Frac(7, 10), sine(4000, j, sr)) + MulQ(Frac(4, 10), sine(8000, j, sr))
                    lin == Linspace(0, Q, n, j)
                    swell == Max(0, Min(Q, MulQ(lin, lin)))
                IN MulQ(sub, Frac(6, 10) + MulQ(Frac(4, 10), swell))
                   + MulQ(MulQ(Frac(3, 10), texture[j + 1]), Q - MulQ(swell, Frac(5, 10))))
    IN normalize_peak(x, PEAK.void)

MixAegis(v, d, sr, ns) ==
    LET n == IntSamples(sr, d)
        bell == bell_tone(v, d, 880, sr)
        sparkle == highpass(Scale(noise(ns, n), Frac(2, 10)), 7000, sr)
        x == Sig(n, LAMBDA j :
                MulQ(Frac(6, 10), MulQ(sine(32000, j, sr), Linspace(Frac(2, 10), Q, n, j)))
                + MulQ(Frac(7, 10), bell[j + 1])
                + MulQ(Frac(18, 100), sparkle[j + 1]))
    IN normalize_peak(x, PEAK.aegis)

\* the normalised mono mix of recipe `name`
Mix(name, v, d, sr, ns, rs) ==
    CASE name = "gale" -> MixGale(d, sr, ns)
      [] name = "ember" -> MixEmber(d, sr, ns, rs)
      [] name = "ward" -> MixWard(v, d, sr)
      [] name = "snare" -> MixSnare(d, sr)
      [] name = "soothe" -> MixSoothe(v, d, sr, ns)
      [] name = "void" -> MixVoid(d, sr, ns)
      [] name = "aegis" -> MixAegis(v, d, sr, ns)

\* the stereo split of recipe `name`: np.stack([L, R], axis=1)
Split(name, x, sr) ==
    CASE name = "gale" -> Stack(x, lowpass(x, 900, sr))
      [] name = "ember" -> Stack(x, lowpass(x, 2500, sr))
      [] name = "ward" -> Stack(x, x)
      [] name = "snare" -> Stack(x, lowpass(x, 3500, sr))
      [] name = "soothe" -> Stack(x, Scale(x, Frac(95, 100)))
      [] name = "void" -> Stack(Scale(x, Frac(95, 100)), x)
      [] name = "aegis" -> Stack(x, x)

\* the recipe's reverb; gale has none
Reverb(name, st, sr, jit) ==
    IF name = "gale" THEN st
    ELSE reverb_simple(st, sr, REVERB[name][1], REVERB[name][2], REVERB[name][3], jit)

\* the largest magnitude inside the recipe's reverb, before it normalises
Wet(name, st, sr, jit) ==
    IF name = "gale" THEN MaxAbs2(st)
    ELSE MaxAbs2(ReverbSum(st, sr, REVERB[name][1], REVERB[name][2], REVERB[name][3], jit))

\* v1 (make_witcher_sfx.py): normalise, fade the mono mix, split, reverb
FinishV1(name, x, sr, jit) ==
    LET xf == fade1(x, sr, FADE[name][1], FADE[name][2])
        st == Split(name, xf, sr)
        rv == Reverb(name, st, sr, jit)
    IN [out |-> rv, lens |-> <<Len(x), Len(xf), Len(st), Len(rv)>>,
        peaks |-> <<MaxAbs(x), MaxAbs(xf), MaxAbs2(st), MaxAbs2(rv)>>,
        wet |-> Wet(name, st, sr, jit)]

\* v2 (make_witcher_sfx_v2.py): normalise, split, reverb, fade the stereo signal
FinishV2(name, x, sr, jit) ==
    LET st == Split(name, x, sr)
        rv == Reverb(name, st, sr, jit)
        fd == fade(rv, sr, FADE[name][1], FADE[name][2])
    IN [out |-> fd, lens |-> <<Len(x), Len(st), Len(rv), Len(fd)>>,
        peaks |-> <<MaxAbs(x), MaxAbs2(st), MaxAbs2(rv), MaxAbs2(fd)>>,
        wet |-> Wet(name, st, sr, jit)]

\* the random.random() draws of the recipe's reverb: ember has drawn 36 numbers
\* for its crackles before
Jitter(name, rs) ==
    LET R == random(rs, 36 + 5)
    IN IF name = "ember" THEN SubSeq(R, 37, 41) ELSE SubSeq(R, 1, 5)

\* the recipe function sfx_<name>(d): the finished stereo buffer, and the
\* lengths and the peaks of the signals its stages return
sfx(name, v, d, sr, ns, rs) ==
    LET x == Mix(name, v, d, sr, ns, rs)
    IN IF v = "v1" THEN FinishV1(name, x, sr, Jitter(name, rs))
       ELSE FinishV2(name, x, sr, Jitter(name, rs))

\* whether sfx_<name>(d) raises, from the lengths alone
sfx_raises(name, v, d, sr) ==
    LET n == IntSamples(sr, d)
    IN \/ n = 0
       \/ name \in {"ward", "soothe", "aegis"} /\ BellEnvRaises(v, n, d, sr)
       \/ name = "ember" /\ n - IntSamples(sr, 150) - 1 < 0
       \/ name = "snare" /\ ~BroadcastOk(SliceLen(n, 0, IntSamples(sr, 400)), IntSamples(sr, 400))
       \/ name # "gale" /\ reverb_raises(n, sr, REVERB[name][2], REVERB[name][3])
       \/ fade_raises(n, IntSamples(sr, FADE[name][1]), IntSamples(sr, FADE[name][2]))

----------------------------------------------------------------------------
(* main *)

StaleSets == {S \in SUBSET Names : Cardinality(S) <= MaxStale}

Init ==
    /\ impl \in {"v1", "v2"}
    /\ pc = "loop"
    /\ idx = 1
    /\ ffmpeg \in BOOLEAN
    /\ \E S \in StaleSets : fs = {Mp3Of(n) : n \in S}
    /\ paths = <<>>
    /\ archive = <<>>
    /\ warned = FALSE
    /\ encoded = {}
    /\ failed = {}
    /\ fresh = {}
    /\ error = "none"
    /\ call = [fn |-> "none"]
    /\ dpc = "off"
    /\ res = [fn |-> "none"]

\* stereo = gen(dur): whether the recipe function raises at its catalog duration
GenRaises(name, v) == sfx_raises(name, v, DURATION_S[name], SAMPLE_RATE)

\* one iteration of v1's batch loop (make_witcher_sfx.py, lines 315-330)
LoopV1 ==
    /\ impl = "v1" /\ pc = "loop" /\ idx <= Len(GENERATORS)
    /\ LET name == GENERATORS[idx] IN
       IF GenRaises(name, impl)
       THEN /\ pc' = "raised"
            /\ error' = "ValueError"
            /\ UNCHANGED <<idx, fs, paths, warned, encoded, failed, fresh>>
       ELSE \E o \in EncoderOutcomes(ffmpeg), left \in BOOLEAN :
          LET r == export_audio(fs, name, o, left)
              ok == o \in {"ok", "small"}
          IN /\ fs' = r.fs
             /\ warned' = (warned \/ r.warn)
             /\ encoded' = (IF ok THEN encoded \cup {name} ELSE encoded)
             /\ failed' = (IF ok THEN failed ELSE failed \cup {name})
             /\ fresh' = fresh \cup (IF ok THEN {Mp3Of(name)} ELSE {WavOf(name)})
             /\ paths' = Append(paths, PickV1(r.fs, name))
             /\ idx' = idx + 1
             /\ pc' = (IF idx = Len(GENERATORS) THEN "zip" ELSE "loop")
             /\ error' = error
    /\ UNCHANGED <<impl, ffmpeg, archive>>
    /\ UNCHANGED dvars

\* one iteration of v2's batch loop (make_witcher_sfx_v2.py, lines 286-306)
LoopV2 ==
    /\ impl = "v2" /\ pc = "loop" /\ idx <= Len(GENERATORS)
    /\ LET name == GENERATORS[idx] IN
       IF GenRaises(name, impl)
       THEN /\ pc' = "raised"
            /\ error' = "ValueError"
            /\ UNCHANGED <<idx, fs, paths, encoded, failed, fresh>>
       ELSE \E o \in EncoderOutcomes(ffmpeg), left \in BOOLEAN :
          LET c == convert_wav_to_mp3(ffmpeg, o)
              fs1 == fs \cup {TmpWavOf(name)}              \* write_wav_int16
              fs2 == fs1 \cup (IF o = "ok" \/ (o \in {"small", "exit"} /\ left)
                               THEN {Mp3Of(name)} ELSE {})
          IN IF c.raises # "none"
             THEN /\ pc' = "raised"
                  /\ error' = c.raises
                  /\ fs' = fs1
                  /\ failed' = failed \cup {name}
                  /\ UNCHANGED <<idx, paths, encoded, fresh>>
             ELSE /\ fs' = (IF c.return THEN fs2 ELSE fs2 \cup {WavOf(name)})   \* shutil.copyfile
                  /\ paths' = Append(paths, PickV2(c.return, name))
                  /\ encoded' = (IF c.return THEN encoded \cup {name} ELSE encoded)
                  /\ failed' = (IF c.return THEN failed ELSE failed \cup {name})
                  /\ fresh' = fresh \cup (IF c.return THEN {Mp3Of(name)} ELSE {WavOf(name)})
                  /\ idx' = idx + 1
                  /\ pc' = (IF idx = Len(GENERATORS) THEN "zip" ELSE "loop")
                  /\ error' = error
    /\ UNCHANGED <<impl, ffmpeg, archive, warned>>
    /\ UNCHANGED dvars

\* a variant of ZipEntries that leaves the fallback files out; C2 must notice it
ZipEntriesMp3Only(ps) == SelectSeq(ps, LAMBDA p : p.ext = "mp3")

\* the archive's entries: zf.write(p, os.path.relpath(p, ".")) for p in the list
ZipEntries(ps) == ps

\* writing the archive; a path that does not exist raises FileNotFoundError
Zip ==
    /\ pc = "zip"
    /\ IF \A k \in 1..Len(paths) : paths[k] \in fs
       THEN /\ archive' = ZipEntries(paths)
            /\ pc' = "summary"
            /\ error' = error
       ELSE /\ archive' = archive
            /\ pc' = "raised"
            /\ error' = "FileNotFoundError"
    /\ UNCHANGED <<impl, idx, ffmpeg, fs, paths, warned, encoded, failed, fresh>>
    /\ UNCHANGED dvars

\* v1's closing note: printed when some collected path ends in ".wav"
FinalNoteV1(ps) == \E k \in 1..Len(ps) : ps[k].ext = "wav"

\* v2's closing note: printed when has_ffmpeg() is false
FinalNoteV2(present) == ~has_ffmpeg(present)

\* the tail of main: (v2) remove the temporary directory, print the summary
Summary ==
    /\ pc = "summary"
    /\ fs' = (IF impl = "v2" THEN {p \in fs : p.dir # TMP_WAV_DIR} ELSE fs)
    /\ warned' = (warned \/ (IF impl = "v1" THEN FinalNoteV1(paths) ELSE FinalNoteV2(ffmpeg)))
    /\ pc' = "done"
    /\ UNCHANGED <<impl, idx, ffmpeg, paths, archive, encoded, failed, fresh, error>>
    /\ UNCHANGED dvars

Next == LoopV1 \/ LoopV2 \/ Zip \/ Summary

Spec == Init /\ [][Next]_vars

----------------------------------------------------------------------------
(* The signal chain, one call at a time: the initial state draws a call     *)
(* (a function and its arguments), the function's action applies it.        *)

\* the longest signal handed to a function called on its own
MaxLen == 5

\* a time of k samples at the model's rate, in tenths of a millisecond
Samples(k) == (k * 10000 + ModelRate - 1) \div ModelRate

\* the rows a stereo test signal is made of
Rows == {<<Q, Q>>, <<0, 0>>, <<0 - (Q \div 2), Q \div 4>>}

\* the stereo test signals: the first row repeated, then a second row
Signals2 == {[i \in 1..n |-> IF i <= k THEN a ELSE b] : n \in 0..MaxLen, k \in 0..1, a \in Rows, b \in Rows}

SfxCalls == [fn : {"sfx"}, name : Names, v : {"v1", "v2"}, ns : 0..MaxSeed, rs : 0..MaxSeed]

EnvelopeCalls == [fn : {"envelope"}, v : {"v1", "v2"}, n : 0..MaxLen, a : 0..MaxLen, d : 0..MaxLen]

ReverbCalls ==
    [fn : {"reverb"}, st : Signals2, taps : 1..2, delay : 1..(MaxLen + 1),
     jit : {<<0, 0>>, <<Q - 1, 0>>, <<Q - 1, Q - 1>>}]

\* the draws of random.random() of two reverb calls, one draw for each tap
JitterDraws == {<<0, 0>>, <<Q - 1, 0>>, <<Q - 1, Q - 1>>}

\* two reverb calls on the same signal with the same decay, taps and delay
Reverb2Calls ==
    [fn : {"reverb2"}, st : Signals2, taps : 1..2, delay : 1..MaxLen,
     jit : JitterDraws, jit2 : JitterDraws]

FadeCalls == [fn : {"fade"}, n : 0..MaxLen, fi : 0..(MaxLen + 1), fo : 0..(MaxLen + 1)]

DInit ==
    /\ impl = "v2" /\ pc = "off" /\ idx = 1 /\ ffmpeg = FALSE /\ fs = {}
    /\ paths = <<>> /\ archive = <<>> /\ warned = FALSE
    /\ encoded = {} /\ failed = {} /\ fresh = {} /\ error = "none"
    /\ call \in SfxCalls \cup EnvelopeCalls \cup ReverbCalls \cup Reverb2Calls \cup FadeCalls
    /\ dpc = "ready"
    /\ res = [fn |-> "none"]

\* gen(dur) of main: the recipe function at its catalog duration
Render ==
    /\ dpc = "ready" /\ call.fn = "sfx"
    /\ LET d == DURATION_S[call.name] IN
       IF sfx_raises(call.name, call.v, d, ModelRate)
       THEN /\ dpc' = "raised"
            /\ res' = [fn |-> "sfx"]
       ELSE /\ dpc' = "returned"
            /\ res' = [fn |-> "sfx",
                       frames |-> IntSamples(SAMPLE_RATE, d),
                       raises |-> sfx_raises(call.name, call.v, d, SAMPLE_RATE)]
                      @@ sfx(call.name, call.v, d, ModelRate, call.ns, call.rs)
    /\ UNCHANGED <<call>>
    /\ UNCHANGED bvars

\* the attack/decay envelope on its own, a attack and d decay samples
CallEnvelope ==
    /\ dpc = "ready" /\ call.fn = "envelope"
    /\ IF (IF call.v = "v1" THEN envelope_raises(call.n, call.a, call.d)
           ELSE envelope2_raises(call.n, call.a, call.d))
       THEN /\ dpc' = "raised"
            /\ res' = [fn |-> "envelope"]
       ELSE /\ dpc' = "returned"
            /\ res' = [fn |-> "envelope",
                       env |-> IF call.v = "v1"
                               THEN envelope_ad(call.n, Samples(call.a), Samples(call.d), ModelRate)
                               ELSE envelope2(call.n, Samples(call.a), Samples(call.d), ModelRate)]
    /\ UNCHANGED <<call>>
    /\ UNCHANGED bvars

\* the reverb on its own
CallReverb ==
    /\ dpc = "ready" /\ call.fn = "reverb"
    /\ IF reverb_raises(Len(call.st), ModelRate, call.taps, Samples(call.delay))
       THEN /\ dpc' = "raised"
            /\ res' = [fn |-> "reverb"]
       ELSE /\ dpc' = "returned"
            /\ res' = [fn |-> "reverb",
                       out |-> reverb_simple(call.st, ModelRate, Frac(5, 10), call.taps,
                                             Samples(call.delay), call.jit)]
    /\ UNCHANGED <<call>>
    /\ UNCHANGED bvars

\* the fade on its own, on a stereo signal of n rows <<Q, Q>>
CallFade ==
    /\ dpc = "ready" /\ call.fn = "fade"
    /\ IF fade_raises(call.n, call.fi, call.fo)
       THEN /\ dpc' = "raised"
            /\ res' = [fn |-> "fade"]
       ELSE /\ dpc' = "returned"
            /\ res' = [fn |-> "fade",
                       out |-> fade([i \in 1..call.n |-> <<Q, Q>>], ModelRate,
                                    Samples(call.fi), Samples(call.fo))]
    /\ UNCHANGED <<call>>
    /\ UNCHANGED bvars

\* the reverb twice on the same arguments, each call with its own draws
CallReverbTwice ==
    /\ dpc = "ready" /\ call.fn = "reverb2"
    /\ IF reverb_raises(Len(call.st), ModelRate, call.taps, Samples(call.delay))
       THEN /\ dpc' = "raised"
            /\ res' = [fn |-> "reverb2"]
       ELSE /\ dpc' = "returned"
            /\ res' = [fn |-> "reverb2",
                       sum1 |-> ReverbSum(call.st, ModelRate, Frac(5, 10), call.taps,
                                          Samples(call.delay), call.jit),
                       sum2 |-> ReverbSum(call.st, ModelRate, Frac(5, 10), call.taps,
                                          Samples(call.delay), call.jit2),
                       out1 |-> reverb_simple(call.st, ModelRate, Frac(5, 10), call.taps,
                                              Samples(call.delay), call.jit),
                       out2 |-> reverb_simple(call.st, ModelRate, Frac(5, 10), call.taps,
                                              Samples(call.delay), call.jit2)]
    /\ UNCHANGED <<call>>
    /\ UNCHANGED bvars

DNext == Render \/ CallEnvelope \/ CallReverb \/ CallReverbTwice \/ CallFade

SpecDsp == DInit /\ [][DNext]_vars

----------------------------------------------------------------------------
(* Properties of the batch build (checked under Spec) *)

\* how far a measured value may be from the stated one, in units of 1/Q
Tol == 2

\* C1: in the batch loop, when the encoder is unavailable or its invocation
\* fails for a recipe, in whatever way, main writes that recipe's .wav into
\* the output directory, does not raise, and goes on with the rest of the
\* catalog.  (v2 lets an OSError of the encoder's start through.)
C1_FallbackNeverAborts ==
    /\ error # "OSError"
    /\ \A name \in failed : WavOf(name) \in fs

\* C2: once main is past the archive, the archive holds exactly 7 entries,
\* one for each recipe name, each the .mp3 or the .wav of the output
\* directory, none twice and none missing, whatever the encoder did.
C2_ArchiveComplete ==
    pc \in {"summary", "done"} =>
        /\ Len(archive) = 7
        /\ {archive[k].name : k \in 1..Len(archive)} = Names
        /\ \A k \in 1..Len(archive) :
              /\ archive[k].dir = TARGET_DIR
              /\ archive[k].ext \in {"mp3", "wav"}
              /\ \A j \in 1..Len(archive) : archive[j].name = archive[k].name => j = k

\* a finished run whose archive mixes encoded and fallback files
C2_Witness ==
    /\ pc = "done"
    /\ \E k \in 1..Len(archive) : archive[k].ext = "mp3"
    /\ \E k \in 1..Len(archive) : archive[k].ext = "wav"
    /\ failed # {} /\ encoded # {}

\* C3: every path main collects for the archive is a file written for its
\* recipe in this run: the .mp3 only if that recipe's encode succeeded in
\* this run, the .wav otherwise; whatever the output directory held before
\* and whatever a failed encode left behind.  (v1 takes any existing .mp3.)
C3_ArchivedIsFresh ==
    \A k \in 1..Len(paths) :
        /\ paths[k] \in fresh
        /\ paths[k].ext = "mp3" => paths[k].name \in encoded

\* C4: when main finishes and some recipe fell back to the .wav because the
\* encoder was unavailable or failed, a warning was surfaced.  (v2 warns
\* only when the encoder is absent.)
C4_FallbackWarns ==
    (pc = "done" /\ \E k \in 1..Len(paths) : paths[k].ext = "wav" /\ paths[k].name \in failed)
        => warned

----------------------------------------------------------------------------
(* Properties of the signal chain (checked under SpecDsp) *)

Rendered == dpc = "returned" /\ call.fn = "sfx"

\* the magnitudes of the samples of a stereo buffer, both channels
Magnitudes(st) == {Abs(st[i][c]) : i \in 1..Len(st), c \in 1..2}

\* the largest magnitude of a stereo buffer
PeakOf(st) == IF st = <<>> THEN 0 ELSE CHOOSE m \in Magnitudes(st) : \A k \in Magnitudes(st) : k <= m

\* the peak of the last peak normalisation of a recipe: the reverb's 0.95,
\* and gale's own 0.8 (gale has no reverb)
LastPeak(name) == IF name = "gale" THEN PEAK.gale ELSE Frac(95, 100)

\* C5: every sample of both channels of the buffer a recipe function returns
\* lies in [-1.0, 1.0], whatever the noise, crackle and jitter draws.
C5_SamplesInRange ==
    Rendered => \A m \in Magnitudes(res.out) : m <= Q

\* a recipe whose reverb sum left [-1, 1] before the final normalisation
C5_Witness == Rendered /\ res.wet > Q /\ PeakOf(res.out) > 0

\* C6 as stated: the largest magnitude of the returned buffer is the peak the
\* recipe passes to its own peak normalisation, within tolerance.
C6_PeakIsConfigured ==
    Rendered => Abs(PeakOf(res.out) - PEAK[call.name]) <= Tol

\* C6 as amended: the recipe's configured peak is the largest magnitude right
\* after the recipe's own normalisation; the returned buffer's largest
\* magnitude is at most the peak of the last normalisation (0.95 with a
\* reverb, 0.8 for gale), and is that 0.95 where the reverb runs last (v1).
C6_PeakAtMostLastNormalisation ==
    Rendered =>
        /\ res.peaks[1] = PEAK[call.name]
        /\ PeakOf(res.out) <= LastPeak(call.name)
        /\ (call.v = "v1" /\ call.name # "gale") => Abs(PeakOf(res.out) - Frac(95, 100)) <= Tol

\* a reverb recipe of v2 whose fade lowered the maximum below the reverb's 0.95,
\* the recipe's configured peak being another one
C6_Witness ==
    /\ Rendered /\ call.v = "v2" /\ call.name # "gale"
    /\ res.peaks[1] = PEAK[call.name] /\ PEAK[call.name] # Frac(95, 100)
    /\ res.peaks[3] = Frac(95, 100)
    /\ PeakOf(res.out) < Frac(95, 100) - Tol

\* int(x + 0.5) of sr * t, t in tenths of a millisecond
Round(sr, t) == (sr * t + 5000) \div 10000

\* C7: a recipe rendered at its catalog duration returns two channels of the
\* same length n, within one sample of round(duration * rate) (39690 frames
\* for ward at 44100), and every stage returns a signal as long as its input.
C7_FrameCount ==
    Rendered =>
        LET d == DURATION_S[call.name]
            n == Len(res.out)
        IN /\ \A i \in 1..n : Len(res.out[i]) = 2
           /\ \A k \in 1..Len(res.lens) : res.lens[k] = n
           /\ Abs(n - Round(ModelRate, d)) <= 1
           /\ ~res.raises
           /\ Abs(res.frames - Round(SAMPLE_RATE, d)) <= 1
           /\ call.name = "ward" => res.frames = 39690

\* ward rendered at 0.9 s
C7_Witness ==
    /\ Rendered /\ call.name = "ward"
    /\ res.frames = 39690
    /\ Len(res.out) = IntSamples(ModelRate, 9000) /\ Len(res.out) > 0

\* C8: the fade is the last stage of every recipe: the first frame of the
\* returned buffer is 0 in both channels when the fade-in has samples, the
\* last frame when the fade-out has.  (v1 fades the mono mix, before the
\* stereo split and the reverb.)
C8_FadeIsLast ==
    Rendered =>
        LET n == Len(res.out)
            fi_n == IntSamples(ModelRate, FADE[call.name][1])
            fo_n == IntSamples(ModelRate, FADE[call.name][2])
        IN /\ fi_n > 0 => (Abs(res.out[1][1]) <= Tol /\ Abs(res.out[1][2]) <= Tol)
           /\ fo_n > 1 => (Abs(res.out[n][1]) <= Tol /\ Abs(res.out[n][2]) <= Tol)

\* C9: with a attack and d decay samples, a + d < n, every gain at an index
\* from a + d on is the last value of the decay, and the gain never rises
\* after the decay.  (Both envelopes start from ones and leave 1.0 there.)
C9_EnvelopeHoldsFloor ==
    (dpc = "returned" /\ call.fn = "envelope" /\ call.d > 0 /\ call.a + call.d < call.n) =>
        \A j \in (call.a + call.d + 1)..call.n :
            /\ res.env[j] = res.env[call.a + call.d]
            /\ res.env[j] <= res.env[j - 1]

\* C10: a reverb call on a signal with a tap whose delay is at least the
\* signal's length returns a buffer of the input's length; it does not raise.
\* (A delay larger than the length raises ValueError.)
C10_LateTapsAreSilent ==
    (/\ call.fn = "reverb" /\ dpc \in {"returned", "raised"}
     /\ Len(call.st) > 0
     /\ \E t \in 1..call.taps : TapDelay(ModelRate, Samples(call.delay), t) >= Len(call.st))
        => (dpc = "returned" /\ Len(res.out) = Len(call.st))

\* C11: a fade whose fade-in or fade-out has more samples than the signal is
\* cut to the signal's length: the call returns a signal as long as its input
\* and does not raise.  (The ramp of fi_n or fo_n values does not broadcast
\* onto the shorter slice: ValueError.)
C11_FadeIsBounded ==
    (/\ call.fn = "fade" /\ dpc \in {"returned", "raised"}
     /\ call.n > 0
     /\ (call.fi > call.n \/ call.fo > call.n))
        => (dpc = "returned" /\ Len(res.out) = call.n)

\* the left and the right channel of a stereo buffer
Left(st) == [i \in 1..Len(st) |-> st[i][1]]

Right(st) == [i \in 1..Len(st) |-> st[i][2]]

Reverbed2 == dpc = "returned" /\ call.fn = "reverb2"

\* C12 as stated: two reverb calls on the same signal, decay, tap count and
\* base delay that draw different jitter return the same left channel.
C12_JitterLeavesLeft ==
    Reverbed2 => Left(res.out1) = Left(res.out2)

\* C12 as amended: the jitter enters the right channel's sum only, so the left
\* channels of the two calls agree before the final normalisation; that
\* normalisation divides both channels by the largest magnitude of either,
\* so the returned left channels agree when the two sums have the same
\* largest magnitude.
C12_JitterLeavesLeftSum ==
    Reverbed2 =>
        /\ Left(res.sum1) = Left(res.sum2)
        /\ PeakOf(res.sum1) = PeakOf(res.sum2) => Left(res.out1) = Left(res.out2)

\* two calls whose draws differ, whose right channels carry the largest
\* magnitude, and whose returned left channels differ
C12_Witness ==
    /\ Reverbed2 /\ call.jit # call.jit2
    /\ Right(res.sum1) # Right(res.sum2)
    /\ Left(res.sum1) = Left(res.sum2)
    /\ PeakOf(res.sum1) # PeakOf(res.sum2)
    /\ Left(res.out1) # Left(res.out2)

====
